---------------------------- MODULE Spec2Model ----------------------------
(***************************************************************************)
(* keras2c: the function assembler (keras2c_main.py), the graph & IO       *)
(* extractor (io_parsing.py) and the program the assembler generates.      *)
(*                                                                         *)
(* Text is a sequence of tokens: Python's str + str is \o, a tensor name   *)
(* is spelled character by character so that split(':') and split('/')    *)
(* can be computed, and a generated C function is its signature text plus  *)
(* the list of its statements.                                             *)
(***************************************************************************)
EXTENDS Integers, Sequences, FiniteSets, TLC

(* ------------------------------ bounds --------------------------------- *)

\* longest list of model-level inputs, and of model-level outputs
MaxIO == 2

\* most layers of a model handed to the extractor
MaxLayers == 2

\* most calls of the generated main function in one run of the program
MaxCalls == 3

\* the number of cells of the persistent state region
StateLen == 2

\* the largest input value handed to the generated main function
MaxInput == 1

(* --------------------------- text helpers ------------------------------ *)

RECURSIVE join(_, _)
\* sep.join(xs) of Python, on token sequences
join(sep, xs) ==
    IF xs = <<>> THEN <<>>
    ELSE IF Len(xs) = 1 THEN xs[1]
    ELSE xs[1] \o sep \o join(sep, Tail(xs))

RECURSIVE BeforeFirst(_, _)
\* s.split(c)[0]: the text before the first occurrence of c
BeforeFirst(s, c) ==
    IF s = <<>> THEN <<>>
    ELSE IF s[1] = c THEN <<>>
    ELSE <<s[1]>> \o BeforeFirst(Tail(s), c)

\* the sequences without repetition over S, of length at most n
InjSeqs(S, n) ==
    UNION { { s \in [1..k -> S] : \A i, j \in 1..k : s[i] = s[j] => i = j } : k \in 0..n }

Range(s) == { s[i] : i \in DOMAIN s }

(* ------------------------ io_parsing.py -------------------------------- *)

\* full tensor names as the host framework spells them
RawNames ==
    { <<"x", ":", "0">>,
      <<"d", "/", "a", ":", "0">>,
      <<"d", "/", "b", ":", "0">> }

\* nm = t.name.split(':')[0].split('/')[0]
NormalizeName(name) == BeforeFirst(BeforeFirst(name, ":"), "/")

get_model_io_names(model) ==
    [ inputs  |-> [ i \in 1..Len(model.inputs)  |-> NormalizeName(model.inputs[i]) ],
      outputs |-> [ i \in 1..Len(model.outputs) |-> NormalizeName(model.outputs[i]) ] ]

(* ------------------------ keras2c_main.py ------------------------------ *)

\* the names of the learned parameter arrays, and each array's flattened values
WeightNames == { <<"dense_kernel_array">>, <<"dense_bias_array">> }

WeightValues(key) == IF key = <<"dense_kernel_array">> THEN <<1, 0, 1>> ELSE <<0, 2>>

\* the lists of model-level tensors a model object can present
IOLists == InjSeqs(RawNames, MaxIO)

\* the models handed to k2c: a model has an input and an output
Models ==
    [ inputs    : IOLists \ {<<>>},
      outputs   : IOLists \ {<<>>},
      weights   : InjSeqs(WeightNames, Cardinality(WeightNames)),
      recurrent : BOOLEAN,
      supported : BOOLEAN ]

\* check_model(model, function_name): TRUE when every layer can be lowered
check_model(model, function_name) == model.supported

\* Weights2C(model, function_name, malloc).write_weights(): the three partitions
write_weights(model, function_name, malloc) ==
    [ stack_vars  |-> IF malloc THEN <<>> ELSE join(<<>>, model.weights),
      malloc_vars |-> IF malloc
                      THEN [ i \in 1..Len(model.weights) |->
                               [ key |-> model.weights[i], value |-> WeightValues(model.weights[i]) ] ]
                      ELSE <<>>,
      static_vars |-> IF model.recurrent
                      THEN <<"static struct ">> \o function_name \o <<"_static_vars {...} ">>
                           \o function_name \o <<"_states", "; \n">>
                      ELSE <<>> ]

\* malloc_vars.keys()
keys(malloc_vars) == [ i \in 1..Len(malloc_vars) |-> malloc_vars[i].key ]

\* a statement of a generated function
Stmt(op, dst, src, n) == [ op |-> op, dst |-> dst, src |-> src, n |-> n ]

\* one value as np.savetxt prints it with fmt="%.8e"
Fmt8e(v) == [ fmt |-> "%.8e", value |-> v ]

savetxt(value) == [ i \in 1..Len(value) |-> Fmt8e(value[i]) ]

\* function_signature with the outputs written before the inputs
function_signature_outputs_first(function_name, model_inputs, model_outputs, malloc_vars) ==
    <<"void ">> \o function_name \o <<"(">>
    \o join(<<", ">>, [ i \in 1..Len(model_outputs) |->
                          <<"k2c_tensor* ">> \o model_outputs[i] \o <<"_output">> ])
    \o <<", ">>
    \o join(<<", ">>, [ i \in 1..Len(model_inputs) |->
                          <<"k2c_tensor* ">> \o model_inputs[i] \o <<"_input">> ])
    \o ( IF Len(keys(malloc_vars)) > 0
         THEN <<",">> \o join(<<",">>, [ i \in 1..Len(malloc_vars) |->
                                          <<"float* ">> \o keys(malloc_vars)[i] ])
         ELSE <<>> )
    \o <<")">>

function_signature(function_name, model_inputs, model_outputs, malloc_vars) ==
    <<"void ">> \o function_name \o <<"(">>
    \o join(<<", ">>, [ i \in 1..Len(model_inputs) |->
                          <<"k2c_tensor* ">> \o model_inputs[i] \o <<"_input">> ])
    \o <<", ">>
    \o join(<<", ">>, [ i \in 1..Len(model_outputs) |->
                          <<"k2c_tensor* ">> \o model_outputs[i] \o <<"_output">> ])
    \o ( IF Len(keys(malloc_vars)) > 0
         THEN <<",">> \o join(<<",">>, [ i \in 1..Len(malloc_vars) |->
                                          <<"float* ">> \o keys(malloc_vars)[i] ])
         ELSE <<>> )
    \o <<")">>

\* gen_function_reset filling the region with ones
gen_function_reset_fill_one(function_name) ==
    [ sig  |-> <<"void ">> \o function_name \o <<"_reset_states()">>,
      body |-> << Stmt("memset", function_name \o <<"_states">>,
                       function_name \o <<"_states">>, 1) >> ]

gen_function_reset(function_name) ==
    [ sig  |-> <<"void ">> \o function_name \o <<"_reset_states()">>,
      body |-> << Stmt("memset", function_name \o <<"_states">>,
                       function_name \o <<"_states">>, 0) >> ]

\* fname = function_name + key + ".csv"
PayloadName(function_name, key) == function_name \o key \o <<".csv">>

\* gen_function_initialize with the load statement naming key + ".csv" only
gen_function_initialize_bare_name(function_name, malloc_vars) ==
    [ sig   |-> <<"void ">> \o function_name \o <<"_initialize(">>
                \o join(<<",">>, [ i \in 1..Len(malloc_vars) |->
                                     <<"float** ">> \o malloc_vars[i].key \o <<" \n">> ])
                \o <<")">>,
      body  |-> [ i \in 1..Len(malloc_vars) |->
                    Stmt("k2c_read_array", malloc_vars[i].key,
                         malloc_vars[i].key \o <<".csv">>,
                         Len(malloc_vars[i].value)) ],
      saved |-> [ i \in 1..Len(malloc_vars) |->
                    [ name |-> PayloadName(function_name, malloc_vars[i].key),
                      data |-> savetxt(malloc_vars[i].value) ] ] ]

gen_function_initialize(function_name, malloc_vars) ==
    [ sig   |-> <<"void ">> \o function_name \o <<"_initialize(">>
                \o join(<<",">>, [ i \in 1..Len(malloc_vars) |->
                                     <<"float** ">> \o malloc_vars[i].key \o <<" \n">> ])
                \o <<")">>,
      body  |-> [ i \in 1..Len(malloc_vars) |->
                    Stmt("k2c_read_array", malloc_vars[i].key,
                         PayloadName(function_name, malloc_vars[i].key),
                         Len(malloc_vars[i].value)) ],
      saved |-> [ i \in 1..Len(malloc_vars) |->
                    [ name |-> PayloadName(function_name, malloc_vars[i].key),
                      data |-> savetxt(malloc_vars[i].value) ] ] ]

\* gen_function_terminate that skips the first weight group
gen_function_terminate_skip_first(function_name, malloc_vars) ==
    [ sig  |-> <<"void ">> \o function_name \o <<"_terminate(">>
               \o join(<<",">>, [ i \in 1..Len(malloc_vars) |->
                                    <<"float* ">> \o malloc_vars[i].key ])
               \o <<")">>,
      body |-> [ i \in 1..(Len(malloc_vars) - 1) |->
                   Stmt("free", malloc_vars[i + 1].key, <<>>, 0) ] ]

gen_function_terminate(function_name, malloc_vars) ==
    [ sig  |-> <<"void ">> \o function_name \o <<"_terminate(">>
               \o join(<<",">>, [ i \in 1..Len(malloc_vars) |->
                                    <<"float* ">> \o malloc_vars[i].key ])
               \o <<")">>,
      body |-> [ i \in 1..Len(malloc_vars) |->
                   Stmt("free", malloc_vars[i].key, <<>>, 0) ] ]

\* Layers2C(model, malloc).write_layers(): the lowered body of the main function
write_layers(model, malloc) == <<"/* layers */ \n">>

\* one source.write(...) or header.write(...)
Chunk(tag, text, body) == [ tag |-> tag, text |-> text, body |-> body ]

\* stateful = len(static_vars) > 0
Stateful(static_vars) == Len(static_vars) > 0

\* what model2c computes before it opens a file (lines 46-71)
Locals(model, function_name, malloc) ==
    LET io == get_model_io_names(model)
        w  == write_weights(model, function_name, malloc)
    IN  [ includes    |-> <<"#include <math.h> \n", "#include <string.h> \n",
                            "#include \"./k2c/k2c_include.h\" \n",
                            "#include \"./k2c/k2c_tensor_include.h\" \n\n">>,
          stack_vars  |-> w.stack_vars,
          malloc_vars |-> w.malloc_vars,
          static_vars |-> w.static_vars,
          stateful    |-> Stateful(w.static_vars),
          layers      |-> write_layers(model, malloc),
          function_signature |->
              function_signature(function_name, io.inputs, io.outputs, w.malloc_vars),
          init  |-> gen_function_initialize(function_name, w.malloc_vars),
          term  |-> gen_function_terminate(function_name, w.malloc_vars),
          reset |-> gen_function_reset(function_name) ]

\* the writes to function_name + '.c', in order
SourceContent(L) ==
    << Chunk("includes", L.includes, <<>>),
       Chunk("static_vars", L.static_vars \o <<"\n\n">>, <<>>),
       Chunk("function_signature", L.function_signature, <<>>),
       Chunk("open", <<" { \n\n">>, <<>>),
       Chunk("stack_vars", L.stack_vars, <<>>),
       Chunk("layers", L.layers, <<>>),
       Chunk("close", <<"\n } \n\n">>, <<>>),
       Chunk("init_fun", L.init.sig, L.init.body),
       Chunk("term_fun", L.term.sig, L.term.body) >>
    \o ( IF L.stateful THEN << Chunk("reset_fun", L.reset.sig, L.reset.body) >> ELSE <<>> )

\* HeaderContent with the reset declaration written whatever stateful is
HeaderContent_always_reset(L) ==
    << Chunk("pragma", <<"#pragma once \n">>, <<>>),
       Chunk("include", <<"#include \"./k2c/k2c_tensor_include.h\" \n">>, <<>>),
       Chunk("function_signature", L.function_signature \o <<"; \n">>, <<>>),
       Chunk("init_sig", L.init.sig \o <<"; \n">>, <<>>),
       Chunk("term_sig", L.term.sig \o <<"; \n">>, <<>>),
       Chunk("reset_sig", L.reset.sig \o <<"; \n">>, <<>>) >>

\* the writes to function_name + '.h', in order
HeaderContent(L) ==
    << Chunk("pragma", <<"#pragma once \n">>, <<>>),
       Chunk("include", <<"#include \"./k2c/k2c_tensor_include.h\" \n">>, <<>>),
       Chunk("function_signature", L.function_signature \o <<"; \n">>, <<>>),
       Chunk("init_sig", L.init.sig \o <<"; \n">>, <<>>),
       Chunk("term_sig", L.term.sig \o <<"; \n">>, <<>>) >>
    \o ( IF L.stateful THEN << Chunk("reset_sig", L.reset.sig \o <<"; \n">>, <<>>) >> ELSE <<>> )

\* K2CSteps with the model compiled before it is checked
K2CSteps_check_late == <<"model2c", "check_model", "make_test_suite">>

\* the statements of k2c after the model argument is resolved, in order (lines 210-220)
K2CSteps == <<"check_model", "model2c", "make_test_suite">>

\* where control goes when step s is over
After(s) ==
    IF s = "entry" THEN K2CSteps[1]
    ELSE LET i == CHOOSE j \in 1..Len(K2CSteps) : K2CSteps[j] = s
         IN  IF i < Len(K2CSteps) THEN K2CSteps[i + 1] ELSE "done"

\* the calls of k2c
Calls ==
    [ model         : Models,
      model_kind    : {"Model", "path", "other"},
      function_name : { <<"f">> },
      malloc        : BOOLEAN,
      num_tests     : {0, 1} ]

\* how an invocation of the formatter ends
AstyleEnv == {"present", "absent", "not_executable"}

VARIABLES
    pc,         \* k2c's position
    args,       \* the arguments of this call of k2c
    files,      \* the files this run has written: name -> content
    formatted,  \* the files the formatter has rewritten
    astyle,     \* how the formatter's invocations ended
    warned,     \* the "astyle not found" message was printed
    raised,     \* the exception that reached k2c's caller, "" when none
    checked,    \* check_model has returned
    ret         \* what model2c returned

kvars == <<pc, args, files, formatted, astyle, warned, raised, checked, ret>>

VARIABLES
    sigArgs,    \* the model, name and placement model2c's signature is built for
    sigText     \* the signature model2c built

svars == <<sigArgs, sigText>>

VARIABLES
    prog,       \* the generated translation unit, as written to F.c
    phase,      \* "start", "initialized" or "terminated"
    ptrs,       \* the caller's weight pointers: name -> block, 0 when unset
    live,       \* the heap blocks allocated and not yet freed
    fault,      \* free() was handed a pointer that is not a live block
    mem,        \* the static regions of the program: name -> cells
    fresh,      \* the same regions of an instance that was never invoked
    outs,       \* the outputs of the calls of main since the last reset
    freshOuts,  \* the outputs of the never-invoked instance on the same inputs
    trail       \* what has happened in this run

rvars == <<prog, phase, ptrs, live, fault, mem, fresh, outs, freshOuts, trail>>

VARIABLES
    layers,     \* model.layers
    ioRes       \* the last call of the extractor and what it gave

iovars == <<layers, ioRes>>

vars == <<pc, args, files, formatted, astyle, warned, raised, checked, ret,
          sigArgs, sigText,
          prog, phase, ptrs, live, fault, mem, fresh, outs, freshOuts, trail,
          layers, ioRes>>

\* open(name, 'w+') ... write: the file holds exactly data afterwards
WriteFile(fs, name, data) ==
    [ n \in DOMAIN fs \cup {name} |-> IF n = name THEN data ELSE fs[n] ]

RECURSIVE WriteAll(_, _)
WriteAll(fs, saved) ==
    IF saved = <<>> THEN fs
    ELSE WriteAll(WriteFile(fs, saved[1].name, saved[1].data), Tail(saved))

NoFiles == [ n \in {} |-> <<>> ]

NoReturn == [ returned |-> FALSE, malloc_vars |-> <<>>, stateful |-> FALSE ]

NoAstyle == [ ran |-> FALSE, env |-> "present", h |-> 0, c |-> 0 ]

L == Locals(args.model, args.function_name, args.malloc)

\* lines 201-207: a path is loaded, anything else that is no Model is refused
K2CEntry ==
    /\ pc = "k2c"
    /\ IF args.model_kind = "other"
       THEN pc' = "raised" /\ raised' = "ValueError"
       ELSE pc' = After("entry") /\ raised' = raised
    /\ UNCHANGED <<args, files, formatted, astyle, warned, checked, ret>>
    /\ UNCHANGED <<svars, rvars, iovars>>

\* line 210
CheckModel ==
    /\ pc = "check_model"
    /\ IF check_model(args.model, args.function_name)
       THEN pc' = After("check_model") /\ checked' = TRUE /\ raised' = raised
       ELSE pc' = "raised" /\ raised' = "check_model" /\ checked' = checked
    /\ UNCHANGED <<args, files, formatted, astyle, warned, ret>>
    /\ UNCHANGED <<svars, rvars, iovars>>

\* model2c, lines 46-71: gen_function_initialize saves the payload files
Model2CGather ==
    /\ pc = "model2c"
    /\ files' = WriteAll(files, L.init.saved)
    /\ pc' = "write_source"
    /\ UNCHANGED <<args, formatted, astyle, warned, raised, checked, ret>>
    /\ UNCHANGED <<svars, rvars, iovars>>

\* model2c, lines 73-84
WriteSource ==
    /\ pc = "write_source"
    /\ files' = WriteFile(files, args.function_name \o <<".c">>, SourceContent(L))
    /\ pc' = "write_header"
    /\ UNCHANGED <<args, formatted, astyle, warned, raised, checked, ret>>
    /\ UNCHANGED <<svars, rvars, iovars>>

\* model2c, lines 86-93
WriteHeader ==
    /\ pc = "write_header"
    /\ files' = WriteFile(files, args.function_name \o <<".h">>, HeaderContent(L))
    /\ pc' = "astyle"
    /\ UNCHANGED <<args, formatted, astyle, warned, raised, checked, ret>>
    /\ UNCHANGED <<svars, rvars, iovars>>

\* model2c, lines 94-100: subprocess.run raises when the program cannot be
\* started, and only FileNotFoundError is caught; an exit status is not looked at
Astyle ==
    /\ pc = "astyle"
    /\ \E env \in AstyleEnv, eh \in {0, 1}, ec \in {0, 1} :
         /\ env # "present" => eh = 0 /\ ec = 0
         /\ astyle' = [ ran |-> TRUE, env |-> env, h |-> eh, c |-> ec ]
         /\ formatted' = IF env = "present"
                         THEN { n \in { args.function_name \o <<".h">>,
                                        args.function_name \o <<".c">> } :
                                  IF n = args.function_name \o <<".h">> THEN eh = 0 ELSE ec = 0 }
                         ELSE formatted
         /\ warned' = (env = "absent")
         /\ IF env = "not_executable"
            THEN pc' = "raised" /\ raised' = "PermissionError" /\ ret' = ret
            ELSE /\ pc' = After("model2c")
                 /\ raised' = raised
                 /\ ret' = [ returned |-> TRUE, malloc_vars |-> keys(L.malloc_vars),
                             stateful |-> L.stateful ]
    /\ UNCHANGED <<args, files, checked>>
    /\ UNCHANGED <<svars, rvars, iovars>>

\* lines 216-225; make_test_suite writes the harness
MakeTestSuite ==
    /\ pc = "make_test_suite"
    /\ files' = IF args.num_tests > 0
                THEN WriteFile(files, args.function_name \o <<"_test_suite.c">>,
                               << Chunk("tests", <<"/* tests */">>, <<>>) >>)
                ELSE files
    /\ pc' = "done"
    /\ UNCHANGED <<args, formatted, astyle, warned, raised, checked, ret>>
    /\ UNCHANGED <<svars, rvars, iovars>>

KNext ==
    \/ K2CEntry
    \/ CheckModel
    \/ Model2CGather
    \/ WriteSource
    \/ WriteHeader
    \/ Astyle
    \/ MakeTestSuite

(* ------------------- properties of one run of k2c ---------------------- *)

CFile == args.function_name \o <<".c">>
HFile == args.function_name \o <<".h">>

Written(name) == name \in DOMAIN files

HasChunk(content, tag) == \E i \in DOMAIN content : content[i].tag = tag

TheChunk(content, tag) == content[CHOOSE i \in DOMAIN content : content[i].tag = tag]

IsPayload(name) == name # <<>> /\ name[Len(name)] = ".csv"

RECURSIVE Split(_)
\* the pieces of a parameter list between its commas
Split(s) ==
    IF s = <<>> THEN << <<>> >>
    ELSE IF s[1] \in {",", ", "} THEN << <<>> >> \o Split(Tail(s))
    ELSE LET r == Split(Tail(s)) IN << <<s[1]>> \o r[1] >> \o Tail(r)

\* the parameters of a signature: what stands between "(" and the closing ")"
ParamList(sig) ==
    LET open  == CHOOSE i \in DOMAIN sig : sig[i] = "(" /\ \A j \in 1..(i - 1) : sig[j] # "("
        inner == SubSeq(sig, open + 1, Len(sig) - 1)
    IN  IF inner = <<>> THEN <<>> ELSE Split(inner)

\* C1: when check_model rejects the model, no file of the run exists when the
\* error reaches the caller; every write of a run comes after check_model returned.
C1_NoWriteBeforeCheck ==
    /\ DOMAIN files # {} => checked
    /\ (pc = "raised" /\ raised = "check_model") => DOMAIN files = {}

C1_Witness ==
    /\ pc = "raised"
    /\ raised = "check_model"
    /\ ~ args.model.supported
    /\ args.malloc /\ args.model.weights # <<>>

\* C3: every external weight group w has exactly one payload file F + w + ".csv"
\* holding its values, and F_initialize has exactly one statement binding *w to
\* the array read from that file with the tensor's element count; no load
\* statement names a file this run did not write, and no other payload exists.
C3_PayloadsMatchLoads ==
    Written(CFile) =>
        LET mv   == write_weights(args.model, args.function_name, args.malloc).malloc_vars
            body == TheChunk(files[CFile], "init_fun").body
        IN  /\ \A i \in DOMAIN mv :
                 LET fname == args.function_name \o mv[i].key \o <<".csv">>
                     loads == { j \in DOMAIN body : body[j].dst = mv[i].key }
                 IN  /\ Written(fname)
                     /\ files[fname] = [ k \in 1..Len(mv[i].value) |-> Fmt8e(mv[i].value[k]) ]
                     /\ Cardinality(loads) = 1
                     /\ \A j \in loads :
                          /\ body[j].op = "k2c_read_array"
                          /\ body[j].src = fname
                          /\ body[j].n = Len(mv[i].value)
            /\ \A j \in DOMAIN body :
                 /\ Written(body[j].src)
                 /\ \E i \in DOMAIN mv : mv[i].key = body[j].dst
            /\ Cardinality({ n \in DOMAIN files : IsPayload(n) }) = Len(mv)

C3_Witness ==
    /\ Written(CFile)
    /\ Len(TheChunk(files[CFile], "init_fun").body) = 2
    /\ Cardinality({ n \in DOMAIN files : IsPayload(n) }) = 2

\* C5: F_reset_states is emitted exactly when the static partition is non-empty:
\* defined in F.c and declared in F.h in that case and in no other, and the
\* returned stateful flag says the same.
C5_ResetIffStateful ==
    LET static == write_weights(args.model, args.function_name, args.malloc).static_vars
        resets == args.function_name \o <<"_reset_states()">>
    IN  /\ Written(HFile) =>
              /\ HasChunk(files[CFile], "reset_fun") <=> static # <<>>
              /\ HasChunk(files[HFile], "reset_sig") <=> static # <<>>
              /\ static # <<>> =>
                    /\ TheChunk(files[CFile], "reset_fun").text = <<"void ">> \o resets
                    /\ TheChunk(files[HFile], "reset_sig").text = <<"void ">> \o resets \o <<"; \n">>
        /\ ret.returned => (ret.stateful <=> static # <<>>)

C5_Witness ==
    /\ pc = "done"
    /\ args.model.recurrent
    /\ HasChunk(files[CFile], "reset_fun")
    /\ HasChunk(files[HFile], "reset_sig")
    /\ ret.stateful

FormatterFailed == astyle.ran /\ (astyle.env # "present" \/ astyle.h # 0 \/ astyle.c # 0)

\* C9 (as claimed): whenever an invocation of the formatter fails, no error
\* reaches the caller, F.c and F.h are completely written and left unformatted,
\* a warning is reported, and model2c returns the weight names and the flag.
C9_FormatterFailureNotFatal ==
    FormatterFailed =>
        /\ raised = ""
        /\ Written(CFile) /\ files[CFile] = SourceContent(L)
        /\ Written(HFile) /\ files[HFile] = HeaderContent(L)
        /\ formatted = {}
        /\ warned
        /\ ret = [ returned |-> TRUE, malloc_vars |-> keys(L.malloc_vars),
                   stateful |-> L.stateful ]

\* the name of a parameter: what follows its type
ParamName(param) == IF param = <<>> THEN <<>> ELSE Tail(param)

\* C10 (as claimed): distinct model-level inputs get distinct normalized names,
\* distinct model-level outputs too, one name per tensor in the model's order, so
\* the main function's signature never has two parameters of the same name.
C10_NamesStayUnique ==
    Written(CFile) =>
        LET io     == get_model_io_names(args.model)
            params == ParamList(TheChunk(files[CFile], "function_signature").text)
            named  == { i \in DOMAIN params : params[i] # <<>> }
        IN  /\ Len(io.inputs) = Len(args.model.inputs)
            /\ Len(io.outputs) = Len(args.model.outputs)
            /\ \A i, j \in DOMAIN io.inputs : i # j => io.inputs[i] # io.inputs[j]
            /\ \A i, j \in DOMAIN io.outputs : i # j => io.outputs[i] # io.outputs[j]
            /\ \A i, j \in named : i # j => ParamName(params[i]) # ParamName(params[j])

(* --------------- the signature, for every size of I, O, W -------------- *)

\* the models model2c's signature construction accepts: any lists, empty ones too
SigModels ==
    [ inputs    : IOLists,
      outputs   : IOLists,
      weights   : InjSeqs(WeightNames, Cardinality(WeightNames)),
      recurrent : {FALSE},
      supported : {TRUE} ]

NoSignature == [ built |-> FALSE, text |-> <<>> ]

\* model2c, lines 46-67
BuildSignature ==
    /\ ~ sigText.built
    /\ sigText' = [ built |-> TRUE,
                    text  |-> Locals(sigArgs.model, sigArgs.function_name,
                                     sigArgs.malloc).function_signature ]
    /\ UNCHANGED sigArgs
    /\ UNCHANGED <<kvars, rvars, iovars>>

SigI == get_model_io_names(sigArgs.model).inputs
SigO == get_model_io_names(sigArgs.model).outputs
SigW == keys(write_weights(sigArgs.model, sigArgs.function_name, sigArgs.malloc).malloc_vars)

\* a k2c_tensor* per input, then a k2c_tensor* per output, then a float* per weight
ExpectedParams(I, O, W) ==
    [ i \in 1..Len(I) |-> <<"k2c_tensor* ">> \o I[i] \o <<"_input">> ]
    \o [ i \in 1..Len(O) |-> <<"k2c_tensor* ">> \o O[i] \o <<"_output">> ]
    \o [ i \in 1..Len(W) |-> <<"float* ">> \o W[i] ]

\* C2 (as claimed): the main function's signature has exactly |I|+|O|+|W|
\* parameters: a k2c_tensor* per input in order, then a k2c_tensor* per output in
\* order, then a float* per external weight in order, for every size of I, O
\* and W, an empty I or an empty O included.
C2_SignatureParameters ==
    sigText.built =>
        /\ ParamList(sigText.text) = ExpectedParams(SigI, SigO, SigW)
        /\ Len(ParamList(sigText.text)) = Len(SigI) + Len(SigO) + Len(SigW)

\* C2 (amended): the same, for every model with at least one input and at
\* least one output.
C2_SignatureParametersNonEmptyIO ==
    (sigText.built /\ SigI # <<>> /\ SigO # <<>>) =>
        /\ ParamList(sigText.text) = ExpectedParams(SigI, SigO, SigW)
        /\ Len(ParamList(sigText.text)) = Len(SigI) + Len(SigO) + Len(SigW)

C2_Witness ==
    /\ sigText.built
    /\ Len(SigI) = 2 /\ Len(SigO) = 1 /\ Len(SigW) = 2
    /\ Len(ParamList(sigText.text)) = 5

SNext == BuildSignature

(* ------------------- the generated program, running -------------------- *)

\* the translation units k2c can emit for function name f
Programs ==
    { SourceContent(Locals(m, <<"f">>, malloc)) :
        m \in [ inputs    : { << <<"x", ":", "0">> >> },
                outputs   : { << <<"d", "/", "a", ":", "0">> >> },
                weights   : InjSeqs(WeightNames, Cardinality(WeightNames)),
                recurrent : BOOLEAN,
                supported : {TRUE} ],
        malloc \in BOOLEAN }

\* the body of a function of the program, <<>> when the program has none of that name
FunBody(p, tag) == IF HasChunk(p, tag) THEN TheChunk(p, tag).body ELSE <<>>

\* the static storage the static_vars partition declares, zero at program start:
\* none, or the one struct object the declaration names (its 4th and 5th token)
StaticRegions(p) ==
    LET decl == TheChunk(p, "static_vars").text
    IN  IF Len(decl) < 5
        THEN [ r \in {} |-> <<>> ]
        ELSE [ r \in { <<decl[4], decl[5]>> } |-> [ i \in 1..StateLen |-> 0 ] ]

NoTrail == [ calls |-> 0, resets |-> 0, dirtied |-> FALSE, lastOp |-> "none",
             twice |-> FALSE, snap |-> [ r \in {} |-> <<>> ],
             bound |-> <<>>, freed |-> <<>> ]

\* the heap and the caller's pointers
Heap(p, l, f) == [ ptrs |-> p, live |-> l, fault |-> f ]

\* one statement on the heap: *dst = k2c_read_array(...) binds dst to a fresh
\* block; free(dst) releases the block dst points to
ExecHeapStmt(h, st) ==
    IF st.op = "k2c_read_array"
    THEN LET b == 1 + Cardinality({ k \in DOMAIN h.ptrs : h.ptrs[k] # 0 })
         IN  Heap([ h.ptrs EXCEPT ![st.dst] = b ], h.live \cup {b}, h.fault)
    ELSE IF st.op = "free"
    THEN IF h.ptrs[st.dst] \in h.live
         THEN Heap(h.ptrs, h.live \ { h.ptrs[st.dst] }, h.fault)
         ELSE Heap(h.ptrs, h.live, TRUE)
    ELSE h

RECURSIVE ExecHeap(_, _)
ExecHeap(h, body) ==
    IF body = <<>> THEN h ELSE ExecHeap(ExecHeapStmt(h, body[1]), Tail(body))

\* memset(&dst, n, sizeof(src)) on the static regions
ExecMemset(m, st) ==
    [ m EXCEPT ![st.dst] = [ i \in DOMAIN m[st.dst] |->
                               IF i <= Len(m[st.src]) THEN st.n ELSE m[st.dst][i] ] ]

RECURSIVE ExecStatic(_, _)
ExecStatic(m, body) ==
    IF body = <<>> THEN m
    ELSE ExecStatic(IF body[1].op = "memset" THEN ExecMemset(m, body[1]) ELSE m, Tail(body))

RECURSIVE Sum(_)
Sum(cells) == IF cells = <<>> THEN 0 ELSE cells[1] + Sum(Tail(cells))

\* one call of the main function on input x: a recurrent layer adds the input
\* to every cell of the state it carries, and the output reads the state
MainState(m, x) == [ r \in DOMAIN m |-> [ i \in DOMAIN m[r] |-> m[r][i] + x ] ]

MainOutput(m, x) ==
    x + ( IF DOMAIN m = {} THEN 0 ELSE Sum(m[CHOOSE r \in DOMAIN m : TRUE]) )

IsZero(m) == \A r \in DOMAIN m : \A i \in DOMAIN m[r] : m[r][i] = 0

\* f_initialize(&w1, &w2, ...)
Initialize ==
    /\ phase = "start"
    /\ LET h == ExecHeap(Heap(ptrs, live, fault), FunBody(prog, "init_fun"))
       IN  /\ ptrs' = h.ptrs
           /\ live' = h.live
           /\ fault' = h.fault
    /\ phase' = "initialized"
    /\ trail' = [ trail EXCEPT !.lastOp = "initialize",
                  !.bound = [ i \in DOMAIN FunBody(prog, "init_fun") |->
                                FunBody(prog, "init_fun")[i].dst ] ]
    /\ UNCHANGED <<prog, mem, fresh, outs, freshOuts>>
    /\ UNCHANGED <<kvars, svars, iovars>>

\* f(in, out, w1, w2, ...)
Main ==
    /\ phase = "initialized"
    /\ trail.calls < MaxCalls
    /\ \E x \in 0..MaxInput :
         /\ mem' = MainState(mem, x)
         /\ outs' = Append(outs, MainOutput(mem, x))
         /\ fresh' = MainState(fresh, x)
         /\ freshOuts' = Append(freshOuts, MainOutput(fresh, x))
    /\ trail' = [ trail EXCEPT !.calls = @ + 1, !.lastOp = "main" ]
    /\ UNCHANGED <<prog, phase, ptrs, live, fault>>
    /\ UNCHANGED <<kvars, svars, iovars>>

\* f_reset_states(), which only a stateful program has
ResetStates ==
    /\ phase = "initialized"
    /\ HasChunk(prog, "reset_fun")
    /\ mem' = ExecStatic(mem, FunBody(prog, "reset_fun"))
    /\ fresh' = StaticRegions(prog)
    /\ outs' = <<>>
    /\ freshOuts' = <<>>
    /\ trail' = [ trail EXCEPT !.resets = 1,
                  !.dirtied = @ \/ ~ IsZero(mem),
                  !.lastOp = "reset",
                  !.twice = @ \/ (trail.lastOp = "reset" /\ trail.dirtied),
                  !.snap = IF trail.lastOp = "reset" THEN @ ELSE mem' ]
    /\ UNCHANGED <<prog, phase, ptrs, live, fault>>
    /\ UNCHANGED <<kvars, svars, iovars>>

\* f_terminate(w1, w2, ...)
Terminate ==
    /\ phase = "initialized"
    /\ LET h == ExecHeap(Heap(ptrs, live, fault), FunBody(prog, "term_fun"))
       IN  /\ ptrs' = h.ptrs
           /\ live' = h.live
           /\ fault' = h.fault
    /\ phase' = "terminated"
    /\ trail' = [ trail EXCEPT !.lastOp = "terminate",
                  !.freed = [ i \in DOMAIN FunBody(prog, "term_fun") |->
                                FunBody(prog, "term_fun")[i].dst ] ]
    /\ UNCHANGED <<prog, mem, fresh, outs, freshOuts>>
    /\ UNCHANGED <<kvars, svars, iovars>>

RNext ==
    \/ Initialize
    \/ Main
    \/ ResetStates
    \/ Terminate

\* C4: F_terminate frees exactly the pointers F_initialize bound, each once, so
\* after initialize; main*; terminate no block allocated by initialize is live.
C4_TerminateFreesAll ==
    /\ phase = "terminated" =>
          /\ live = {}
          /\ ~ fault
          /\ Range(trail.freed) = Range(trail.bound)
          /\ Len(trail.freed) = Cardinality(Range(trail.freed))
          /\ Len(trail.bound) = Cardinality(Range(trail.bound))
    /\ phase = "initialized" => Cardinality(live) = Len(trail.bound)

C4_Witness ==
    /\ phase = "terminated"
    /\ Len(trail.bound) = 2
    /\ Len(trail.freed) = 2
    /\ trail.calls >= 1

\* C6: after any calls of main, F_reset_states followed by an input sequence
\* gives the outputs a never-invoked instance gives on that sequence, and a
\* second reset in a row leaves the state the first one left.
C6_ResetRestoresFresh ==
    /\ trail.resets > 0 => (outs = freshOuts /\ mem = fresh)
    /\ trail.lastOp = "reset" => (mem = trail.snap /\ IsZero(mem))

C6_Witness ==
    /\ trail.dirtied
    /\ trail.twice
    /\ Len(outs) >= 2
    /\ mem # StaticRegions(prog)

(* ------------------ the extractor on a model's layers ------------------ *)

TensorNames == {"x", "y", "z"}

\* layer.input or layer.output: one named tensor, a list of tensors, or nothing
\* (the attribute raises AttributeError on a layer that was never connected)
Tensor(n) == [ kind |-> "tensor", names |-> <<n>> ]
TensorList(ns) == [ kind |-> "list", names |-> ns ]
Absent == [ kind |-> "absent", names |-> <<>> ]

Layer(type, input, output) == [ type |-> type, input |-> input, output |-> output ]

LayerChoices ==
    { Layer("InputLayer", Tensor(t), Tensor(t)) : t \in {"x", "y"} }
    \cup { Layer("Dense", Tensor(ab[1]), Tensor(ab[2])) :
             ab \in { p \in TensorNames \X TensorNames : p[1] # p[2] } }
    \cup { Layer("Concatenate", TensorList(<<"x", "y">>), Tensor("z")) }
    \cup { Layer("Dense", Absent, Absent) }

LayerLists == UNION { [1..k -> LayerChoices] : k \in 1..MaxLayers }

\* nested Python lists and tuples, for flatten
Leaf(x) == [ leaf |-> TRUE, val |-> x, kids |-> <<>> ]
Node(kids) == [ leaf |-> FALSE, val |-> "", kids |-> kids ]

ListOf(names) == Node([ i \in DOMAIN names |-> Leaf(names[i]) ])

RECURSIVE flatten(_)
RECURSIVE flattenAll(_)
flatten(x) == IF x.leaf THEN <<x.val>> ELSE flattenAll(x.kids)

flattenAll(xs) == IF xs = <<>> THEN <<>> ELSE flatten(xs[1]) \o flattenAll(Tail(xs))

layer_type(layer) == layer.type

\* [layer.input.name], [layer.output.name]: .name exists on a single tensor only
get_layer_io_names(layer) ==
    IF layer_type(layer) = "InputLayer"
    THEN [ raised |-> "", inputs |-> <<>>, outputs |-> <<>> ]
    ELSE IF layer.input.kind # "tensor" \/ layer.output.kind # "tensor"
    THEN [ raised |-> "AttributeError", inputs |-> <<>>, outputs |-> <<>> ]
    ELSE [ raised |-> "", inputs |-> <<layer.input.names[1]>>,
           outputs |-> <<layer.output.names[1]>> ]

\* the list a holds before list(set(flatten(a)))
AllNested(ls) ==
    LET first == get_layer_io_names(ls[1])
    IN  Node(<< Node(<< ListOf(first.inputs), ListOf(first.outputs) >>) >>
             \o [ i \in DOMAIN ls |-> ListOf(get_layer_io_names(ls[i]).outputs) ])

\* get_all_io_names: the exception it ends with, "" when it returns
AllRaised(ls) ==
    IF \E i \in DOMAIN ls : get_layer_io_names(ls[i]).raised # ""
    THEN "AttributeError" ELSE ""

\* list(set(xs)): the elements of xs once each, in an order Python does not fix
ListsOfSet(xs) ==
    { s \in InjSeqs(Range(xs), Cardinality(Range(xs))) : Range(s) = Range(xs) }

NoCall == [ fn |-> "none", layer |-> 0, raised |-> "", inputs |-> <<>>,
            outputs |-> <<>>, all |-> <<>> ]

GetLayerIoNames ==
    /\ \E i \in DOMAIN layers :
         LET r == get_layer_io_names(layers[i])
         IN  ioRes' = [ fn |-> "get_layer_io_names", layer |-> i, raised |-> r.raised,
                        inputs |-> r.inputs, outputs |-> r.outputs, all |-> <<>> ]
    /\ UNCHANGED layers
    /\ UNCHANGED <<kvars, svars, rvars>>

GetAllIoNames ==
    /\ layers # <<>>
    /\ IF AllRaised(layers) # ""
       THEN ioRes' = [ fn |-> "get_all_io_names", layer |-> 0, raised |-> AllRaised(layers),
                       inputs |-> <<>>, outputs |-> <<>>, all |-> <<>> ]
       ELSE \E a \in ListsOfSet(flatten(AllNested(layers))) :
              ioRes' = [ fn |-> "get_all_io_names", layer |-> 0, raised |-> "",
                         inputs |-> <<>>, outputs |-> <<>>, all |-> a ]
    /\ UNCHANGED layers
    /\ UNCHANGED <<kvars, svars, rvars>>

IONext ==
    \/ GetLayerIoNames
    \/ GetAllIoNames

\* the tensors a layer reads and the tensors it produces
Reads(layer) == Range(layer.input.names)
Produces(layer) == Range(layer.output.names)

\* the data-model invariant: a layer reads model inputs (what an input layer
\* holds) or what an earlier layer produced, and no tensor is produced twice
DataModelInvariant(ls) ==
    /\ \A i \in DOMAIN ls :
         ls[i].type # "InputLayer" =>
            /\ ls[i].input.kind # "absent" /\ ls[i].output.kind # "absent"
            /\ \A n \in Reads(ls[i]) : \E j \in 1..(i - 1) : n \in Produces(ls[j])
    /\ \A i, j \in DOMAIN ls : i # j => Produces(ls[i]) \cap Produces(ls[j]) = {}

\* C7 (as claimed): get_layer_io_names raises for no layer: it returns a pair
\* of lists, empty ones for an input layer, and an empty list for a layer whose
\* input or output is absent or is not a single named tensor.
C7_ExtractorNeverRaises ==
    ioRes.fn = "get_layer_io_names" =>
        /\ ioRes.raised = ""
        /\ layers[ioRes.layer].type = "InputLayer" =>
              (ioRes.inputs = <<>> /\ ioRes.outputs = <<>>)
        /\ layers[ioRes.layer].input.kind # "tensor" => ioRes.inputs = <<>>
        /\ layers[ioRes.layer].output.kind # "tensor" => ioRes.outputs = <<>>

\* C8 (as claimed): on a model that satisfies the data-model invariant,
\* get_all_io_names returns every name get_layer_io_names reports as an input
\* or an output of any layer, each once, whatever the first layer's kind.
C8_AllNamesCollected ==
    ( /\ ioRes.fn = "get_all_io_names"
      /\ ioRes.raised = ""
      /\ DataModelInvariant(layers) ) =>
        /\ Len(ioRes.all) = Cardinality(Range(ioRes.all))
        /\ \A i \in DOMAIN layers :
             /\ Range(get_layer_io_names(layers[i]).inputs) \subseteq Range(ioRes.all)
             /\ Range(get_layer_io_names(layers[i]).outputs) \subseteq Range(ioRes.all)

(* ------------------------- specifications ------------------------------ *)

\* k2c is called
Init ==
    /\ pc = "k2c"
    /\ args \in Calls
    /\ files = NoFiles
    /\ formatted = {}
    /\ astyle = NoAstyle
    /\ warned = FALSE
    /\ raised = ""
    /\ checked = FALSE
    /\ ret = NoReturn
    /\ sigArgs = [ model |-> [ inputs |-> <<>>, outputs |-> <<>>, weights |-> <<>>,
                               recurrent |-> FALSE, supported |-> TRUE ],
                   function_name |-> <<"f">>, malloc |-> FALSE ]
    /\ sigText = NoSignature
    /\ prog = <<>>
    /\ phase = "start"
    /\ ptrs = [ k \in WeightNames |-> 0 ]
    /\ live = {}
    /\ fault = FALSE
    /\ mem = [ r \in {} |-> <<>> ]
    /\ fresh = [ r \in {} |-> <<>> ]
    /\ outs = <<>>
    /\ freshOuts = <<>>
    /\ trail = NoTrail
    /\ layers = <<>>
    /\ ioRes = NoCall

\* model2c is about to build a signature
InitSig ==
    /\ pc = "idle"
    /\ args = [ model |-> [ inputs |-> <<>>, outputs |-> <<>>, weights |-> <<>>,
                            recurrent |-> FALSE, supported |-> TRUE ],
                model_kind |-> "Model", function_name |-> <<"f">>,
                malloc |-> FALSE, num_tests |-> 0 ]
    /\ files = NoFiles
    /\ formatted = {}
    /\ astyle = NoAstyle
    /\ warned = FALSE
    /\ raised = ""
    /\ checked = FALSE
    /\ ret = NoReturn
    /\ sigArgs \in [ model : SigModels, function_name : { <<"f">> }, malloc : BOOLEAN ]
    /\ sigText = NoSignature
    /\ prog = <<>>
    /\ phase = "start"
    /\ ptrs = [ k \in WeightNames |-> 0 ]
    /\ live = {}
    /\ fault = FALSE
    /\ mem = [ r \in {} |-> <<>> ]
    /\ fresh = [ r \in {} |-> <<>> ]
    /\ outs = <<>>
    /\ freshOuts = <<>>
    /\ trail = NoTrail
    /\ layers = <<>>
    /\ ioRes = NoCall

\* a generated program starts
InitRun ==
    /\ pc = "idle"
    /\ args = [ model |-> [ inputs |-> <<>>, outputs |-> <<>>, weights |-> <<>>,
                            recurrent |-> FALSE, supported |-> TRUE ],
                model_kind |-> "Model", function_name |-> <<"f">>,
                malloc |-> FALSE, num_tests |-> 0 ]
    /\ files = NoFiles
    /\ formatted = {}
    /\ astyle = NoAstyle
    /\ warned = FALSE
    /\ raised = ""
    /\ checked = FALSE
    /\ ret = NoReturn
    /\ sigArgs = [ model |-> [ inputs |-> <<>>, outputs |-> <<>>, weights |-> <<>>,
                               recurrent |-> FALSE, supported |-> TRUE ],
                   function_name |-> <<"f">>, malloc |-> FALSE ]
    /\ sigText = NoSignature
    /\ prog \in Programs
    /\ phase = "start"
    /\ ptrs = [ k \in WeightNames |-> 0 ]
    /\ live = {}
    /\ fault = FALSE
    /\ mem = StaticRegions(prog)
    /\ fresh = StaticRegions(prog)
    /\ outs = <<>>
    /\ freshOuts = <<>>
    /\ trail = NoTrail
    /\ layers = <<>>
    /\ ioRes = NoCall

\* the extractor is handed a model
InitIO ==
    /\ pc = "idle"
    /\ args = [ model |-> [ inputs |-> <<>>, outputs |-> <<>>, weights |-> <<>>,
                            recurrent |-> FALSE, supported |-> TRUE ],
                model_kind |-> "Model", function_name |-> <<"f">>,
                malloc |-> FALSE, num_tests |-> 0 ]
    /\ files = NoFiles
    /\ formatted = {}
    /\ astyle = NoAstyle
    /\ warned = FALSE
    /\ raised = ""
    /\ checked = FALSE
    /\ ret = NoReturn
    /\ sigArgs = [ model |-> [ inputs |-> <<>>, outputs |-> <<>>, weights |-> <<>>,
                               recurrent |-> FALSE, supported |-> TRUE ],
                   function_name |-> <<"f">>, malloc |-> FALSE ]
    /\ sigText = NoSignature
    /\ prog = <<>>
    /\ phase = "start"
    /\ ptrs = [ k \in WeightNames |-> 0 ]
    /\ live = {}
    /\ fault = FALSE
    /\ mem = [ r \in {} |-> <<>> ]
    /\ fresh = [ r \in {} |-> <<>> ]
    /\ outs = <<>>
    /\ freshOuts = <<>>
    /\ trail = NoTrail
    /\ layers \in LayerLists
    /\ ioRes = NoCall

\* one call of k2c
Spec == Init /\ [][KNext]_vars

\* model2c's signature on every list of inputs, outputs and weights
SpecSig == InitSig /\ [][SNext]_vars

\* one run of a generated program
SpecRun == InitRun /\ [][RNext]_vars

\* the extractor on a model's layers
SpecIO == InitIO /\ [][IONext]_vars

====
